---- MODULE Spec2Model ----
(***************************************************************************)
(* OptiNetSim (src/app.py): topology construction, wavelength assignment,  *)
(* node-failure simulation and QoS estimation over a networkx-style        *)
(* undirected graph.                                                       *)
(*                                                                         *)
(* A graph is a record [nodes, edges]: nodes is the set of node ids and    *)
(* edges maps each unordered endpoint pair {u, v} (a one-element set for a *)
(* self-loop) to the link's wavelength attribute, as nx.Graph keeps one    *)
(* attribute dict per unordered pair.                                      *)
(***************************************************************************)
EXTENDS Integers, FiniteSets, Sequences, TLC

VARIABLES pc, nodes, topology_type, wavelengths, failed_node,
          traffic_load, hops, wavelength_conversion,
          G, latency, throughput, err

vars == <<pc, nodes, topology_type, wavelengths, failed_node,
          traffic_load, hops, wavelength_conversion,
          G, latency, throughput, err>>

----------------------------------------------------------------------------
(* Bounds of the model *)

\* create_topology is explored for node counts -MaxNegNodes .. MaxTopoNodes
MaxNegNodes == 2
MaxTopoNodes == 16
\* the function-level specification uses node counts 1 .. MaxFnNodes
MaxFnNodes == 4
\* a full run is explored for the topologies with at most MaxRunLinks links
MaxRunLinks == 8
\* the first NumLabels entries of the multiselect's options are offered
NumLabels == 2

(* Program constants *)

\* st.slider("Number of Nodes", 3, 15, 6)
SliderMinNodes == 3
SliderMaxNodes == 15
\* st.slider("Traffic Load (%)", 0, 100, 30)
MaxTrafficLoad == 100
\* st.slider("Average Hops in Path", 1, 10, 4)
MaxHops == 10

TopologyKinds ==
    {"Ring", "Mesh", "Star", "PON", "WRPON", "Broadcast Select PON"}

WavelengthOptions == <<"red", "green", "blue", "orange">>

Labels ==
    {WavelengthOptions[i] : i \in 1..(IF NumLabels < 4 THEN NumLabels ELSE 4)}

\* Python's None, the wavelength of a link no assignment has touched
None == "None"

----------------------------------------------------------------------------
(* networkx.Graph *)

EmptyGraph == [nodes |-> {}, edges |-> [p \in {} |-> None]]

Links(g) == DOMAIN g.edges

add_nodes_from(g, S) == [g EXCEPT !.nodes = @ \cup S]

\* adds both endpoints when missing; an existing pair keeps one entry and
\* has its attribute overwritten
add_edge(g, u, v, w) ==
    [nodes |-> g.nodes \cup {u, v},
     edges |-> ({u, v} :> w) @@ g.edges]

\* slip: the node goes, its links stay
remove_node_KeepLinks(g, n) == [g EXCEPT !.nodes = @ \ {n}]

\* removes the node and every link incident to it
remove_node(g, n) ==
    [nodes |-> g.nodes \ {n},
     edges |-> [p \in {q \in Links(g) : n \notin q} |-> g.edges[p]]]

----------------------------------------------------------------------------
(* create_topology *)

\* slip: the successor taken as i % n, without the + 1
RECURSIVE RingLoop_ZeroBased(_, _, _)
RingLoop_ZeroBased(g, i, n) ==
    IF i > n THEN g
    ELSE RingLoop_ZeroBased(add_edge(g, i, i % n, None), i + 1, n)

\* slip: the closing link from node n back to node 1 left out
RECURSIVE RingLoop_Open(_, _, _)
RingLoop_Open(g, i, n) ==
    IF i > n - 1 THEN g
    ELSE RingLoop_Open(add_edge(g, i, (i % n) + 1, None), i + 1, n)

RECURSIVE RingLoop(_, _, _)
RingLoop(g, i, n) ==
    IF i > n THEN g
    ELSE RingLoop(add_edge(g, i, (i % n) + 1, None), i + 1, n)

\* for j in range(lo, n + 1): G.add_edge(i, j, wavelength=None)
InnerLoop(g, i, lo, n) ==
    [nodes |-> g.nodes \cup (IF lo > n THEN {} ELSE {i} \cup (lo..n)),
     edges |-> [p \in {{i, j} : j \in lo..n} |-> None] @@ g.edges]

RECURSIVE MeshLoop(_, _, _)
MeshLoop(g, i, n) ==
    IF i > n THEN g
    ELSE MeshLoop(InnerLoop(g, i, i + 1, n), i + 1, n)

\* slip: each node linked to its predecessor instead of to node 1
RECURSIVE HubLoop_Chain(_, _, _)
HubLoop_Chain(g, i, hi) ==
    IF i > hi THEN g
    ELSE HubLoop_Chain(add_edge(g, i - 1, i, None), i + 1, hi)

\* for i in range(lo, hi + 1): G.add_edge(1, i, wavelength=None)
RECURSIVE HubLoop(_, _, _)
HubLoop(g, i, hi) ==
    IF i > hi THEN g
    ELSE HubLoop(add_edge(g, 1, i, None), i + 1, hi)

RECURSIVE RouterLoop(_, _, _, _)
RouterLoop(g, i, middle, n) ==
    IF i > middle + 1 THEN g
    ELSE RouterLoop(InnerLoop(g, i, middle + 2, n), i + 1, middle, n)

\* slip: the router tier sized by rounding n / 2 up
WRPON_RoundUp(g, n) ==
    LET middle == (n + 1) \div 2
    IN  RouterLoop(HubLoop(g, 2, middle + 1), 2, middle, n)

WRPON(g, n) ==
    LET middle == n \div 2
    IN  RouterLoop(HubLoop(g, 2, middle + 1), 2, middle, n)

create_topology(n, kind) ==
    LET g0 == add_nodes_from(EmptyGraph, 1..n)
    IN  CASE kind = "Ring" -> RingLoop(g0, 1, n)
          [] kind = "Mesh" -> MeshLoop(g0, 1, n)
          [] kind = "Star" -> HubLoop(g0, 2, n)
          [] kind = "PON" -> HubLoop(g0, 2, n)
          [] kind = "WRPON" -> WRPON(g0, n)
          [] kind = "Broadcast Select PON" -> HubLoop(g0, 2, n)
          [] OTHER -> g0

----------------------------------------------------------------------------
(* assign_wavelengths: every outcome of one random.choice(W) per link *)

\* slip: a link may be skipped and keep None
assign_wavelengths_Skipping(g, W) ==
    {[g EXCEPT !.edges = choice] : choice \in [Links(g) -> W \cup {None}]}

assign_wavelengths(g, W) ==
    {[g EXCEPT !.edges = choice] : choice \in [Links(g) -> W]}

----------------------------------------------------------------------------
(* simulate_node_failure *)

\* slip: the node id taken as a 0-based index
simulate_node_failure_ZeroBased(g, k) ==
    IF k + 1 \in g.nodes THEN remove_node(g, k + 1) ELSE g

simulate_node_failure(g, k) ==
    IF k \in g.nodes THEN remove_node(g, k) ELSE g

----------------------------------------------------------------------------
(* qos_metrics: latency is kept in half milliseconds, so hops * 0.5 is the *)
(* integer hops and hops * 1 is 2 * hops                                   *)

Max(a, b) == IF a >= b THEN a ELSE b

qos_latency(h, conv) == h * (IF conv THEN 1 ELSE 2)

\* slip: no floor at 0
qos_throughput_NoFloor(load) == 100 - load * 2

qos_throughput(load) == Max(0, 100 - load * 2)

----------------------------------------------------------------------------
(* Steps *)

\* G = create_topology(nodes, topology_type)
CreateTopology ==
    /\ pc = "start"
    /\ G' = create_topology(nodes, topology_type)
    /\ pc' = "created"
    /\ UNCHANGED <<nodes, topology_type, wavelengths, failed_node,
                   traffic_load, hops, wavelength_conversion,
                   latency, throughput, err>>

\* G = assign_wavelengths(G, wavelengths): random.choice raises IndexError
\* on an empty sequence, at the first link, before any link is written; a
\* graph without links never reaches random.choice
AssignWavelengths ==
    /\ pc = "created"
    /\ IF Links(G) # {} /\ wavelengths = {}
       THEN /\ err' = "IndexError"
            /\ pc' = "aborted"
            /\ G' = G
       ELSE /\ G' \in assign_wavelengths(G, wavelengths)
            /\ pc' = "assigned"
            /\ err' = err
    /\ UNCHANGED <<nodes, topology_type, wavelengths, failed_node,
                   traffic_load, hops, wavelength_conversion,
                   latency, throughput>>

\* if failed_node != 0: G = simulate_node_failure(G, failed_node)
FailureStep ==
    /\ pc = "assigned"
    /\ G' = IF failed_node # 0 THEN simulate_node_failure(G, failed_node)
            ELSE G
    /\ pc' = "failed"
    /\ UNCHANGED <<nodes, topology_type, wavelengths, failed_node,
                   traffic_load, hops, wavelength_conversion,
                   latency, throughput, err>>

\* a direct call simulate_node_failure(G, k), any k, any number of times
CallSimulateNodeFailure ==
    /\ pc \in {"assigned", "failed"}
    /\ \E k \in 0..(MaxFnNodes + 1) :
          /\ failed_node' = k
          /\ G' = simulate_node_failure(G, k)
    /\ pc' = "failed"
    /\ UNCHANGED <<nodes, topology_type, wavelengths,
                   traffic_load, hops, wavelength_conversion,
                   latency, throughput, err>>

\* latency, throughput = qos_metrics(traffic_load, hops, wavelength_conversion)
QosMetrics ==
    /\ pc = "failed"
    /\ latency' = qos_latency(hops, wavelength_conversion)
    /\ throughput' = qos_throughput(traffic_load)
    /\ pc' = "done"
    /\ UNCHANGED <<nodes, topology_type, wavelengths, failed_node,
                   traffic_load, hops, wavelength_conversion, G, err>>

----------------------------------------------------------------------------
(* Specifications *)

\* create_topology alone, every kind, node counts inside and outside the
\* slider's range
InitTopo ==
    /\ pc = "start"
    /\ nodes \in (0 - MaxNegNodes)..MaxTopoNodes
    /\ topology_type \in TopologyKinds
    /\ wavelengths = {}
    /\ failed_node = 0
    /\ traffic_load = 30 /\ hops = 4 /\ wavelength_conversion = TRUE
    /\ G = EmptyGraph
    /\ latency = None /\ throughput = None
    /\ err = "none"

NextTopo == CreateTopology

SpecTopo == InitTopo /\ [][NextTopo]_vars

\* the functions called directly: any node count from 1, any selection of
\* labels (the empty one included), any node id to fail, repeatedly
InitFn ==
    /\ pc = "start"
    /\ nodes \in 1..MaxFnNodes
    /\ topology_type \in TopologyKinds
    /\ wavelengths \in SUBSET Labels
    /\ failed_node = 0
    /\ traffic_load = 30 /\ hops = 4 /\ wavelength_conversion = TRUE
    /\ G = EmptyGraph
    /\ latency = None /\ throughput = None
    /\ err = "none"

NextFn ==
    \/ CreateTopology
    \/ AssignWavelengths
    \/ CallSimulateNodeFailure

SpecFn == InitFn /\ [][NextFn]_vars

\* one run of the script with the widgets' ranges
InitRun ==
    /\ pc = "start"
    /\ nodes \in SliderMinNodes..SliderMaxNodes
    /\ topology_type \in TopologyKinds
    /\ Cardinality(Links(create_topology(nodes, topology_type))) <= MaxRunLinks
    /\ wavelengths \in SUBSET Labels
    /\ failed_node \in 0..nodes
    /\ traffic_load = 30 /\ hops = 4
    /\ wavelength_conversion \in BOOLEAN
    /\ G = EmptyGraph
    /\ latency = None /\ throughput = None
    /\ err = "none"

NextRun ==
    \/ CreateTopology
    \/ AssignWavelengths
    \/ FailureStep
    \/ QosMetrics

Spec == InitRun /\ [][NextRun]_vars

\* qos_metrics alone over the sliders' full ranges, on a graph a run can hold
InitQos ==
    /\ pc = "failed"
    /\ nodes = SliderMinNodes
    /\ topology_type \in {"Ring", "Star"}
    /\ wavelengths \in {{l} : l \in Labels}
    /\ failed_node = 0
    /\ traffic_load \in 0..MaxTrafficLoad
    /\ hops \in 1..MaxHops
    /\ wavelength_conversion \in BOOLEAN
    /\ \E l \in wavelengths :
          G = [create_topology(nodes, topology_type) EXCEPT
                  !.edges = [p \in DOMAIN @ |-> l]]
    /\ latency = None /\ throughput = None
    /\ err = "none"

NextQos == QosMetrics

SpecQos == InitQos /\ [][NextQos]_vars

----------------------------------------------------------------------------
(* Vocabulary of the properties *)

NumLinks(g) == Cardinality(Links(g))

Degree(g, v) == Cardinality({p \in Links(g) : v \in p})

\* the nodes reachable from the nodes of S along links
RECURSIVE ReachableFrom(_, _)
ReachableFrom(g, S) ==
    LET next == S \cup UNION {p \in Links(g) : p \cap S # {}}
    IN  IF next = S THEN S ELSE ReachableFrom(g, next)

Connected(g) == \A v \in g.nodes : ReachableFrom(g, {v}) = g.nodes

\* N links, one cycle through all the nodes, no self-loop
IsRing(g, n) ==
    /\ NumLinks(g) = n
    /\ \A p \in Links(g) : Cardinality(p) = 2 /\ p \subseteq g.nodes
    /\ \A v \in g.nodes : Degree(g, v) = 2
    /\ Connected(g)

StarKinds == {"Star", "PON", "Broadcast Select PON"}

----------------------------------------------------------------------------
(* Properties of create_topology, checked under SpecTopo *)

\* C1: for every kind and every node count in the slider's range 3..15 the
\* created graph has exactly the nodes 1..N, and every link joins two
\* distinct nodes of that set (one entry per unordered pair, no self-loop).
C1_TopologyWellFormed ==
    (pc = "created" /\ nodes \in SliderMinNodes..SliderMaxNodes) =>
        /\ G.nodes = 1..nodes
        /\ Cardinality(G.nodes) = nodes
        /\ \A p \in Links(G) : Cardinality(p) = 2 /\ p \subseteq 1..nodes

C1_Witness ==
    /\ pc = "created"
    /\ nodes = SliderMaxNodes
    /\ topology_type = "Ring"
    /\ {nodes, 1} \in Links(G)

\* C4: for N >= 1, Mesh has N*(N-1)/2 links, one per pair i < j; Star, PON
\* and Broadcast Select PON each have exactly the N-1 links {1, i}, 2 <= i <= N.
C4_MeshAndStarLinks ==
    (pc = "created" /\ nodes >= 1) =>
        /\ topology_type = "Mesh" =>
              /\ 2 * NumLinks(G) = nodes * (nodes - 1)
              /\ \A i \in 1..nodes : \A j \in 1..nodes :
                    i < j => {i, j} \in Links(G)
        /\ topology_type \in StarKinds =>
              /\ NumLinks(G) = nodes - 1
              /\ \A p \in Links(G) : 1 \in p
              /\ Links(G) = {{1, i} : i \in 2..nodes}

C4_Witness ==
    /\ pc = "created"
    /\ nodes = 7
    /\ topology_type = "Broadcast Select PON"
    /\ NumLinks(G) = 6

\* C5 as stated: for every N >= 1 the Ring has N links forming one cycle
\* through all the nodes, without self-loop or doubled pair.
C5_RingEveryN ==
    (pc = "created" /\ topology_type = "Ring" /\ nodes >= 1) =>
        IsRing(G, nodes)

\* C5 amended: the same for every N >= 3.
C5_RingFromThree ==
    (pc = "created" /\ topology_type = "Ring" /\ nodes >= 3) =>
        /\ G.nodes = 1..nodes
        /\ IsRing(G, nodes)

C5_Witness ==
    /\ pc = "created"
    /\ topology_type = "Ring"
    /\ nodes = 5
    /\ Links(G) = {{1, 2}, {2, 3}, {3, 4}, {4, 5}, {5, 1}}

\* C6: for N >= 1, with m = floor(N/2), routers 2..m+1 and terminals
\* m+2..N, WRPON has exactly the links hub-router and router-terminal,
\* m + m*(N-1-m) of them, and an empty tier raises nothing; N = 10 gives
\* routers 2..6, terminals 7..10, 5 + 20 = 25 links.
C6_WRPONLinks ==
    (pc = "created" /\ topology_type = "WRPON" /\ nodes >= 1) =>
        LET m == nodes \div 2
            routers == 2..(m + 1)
            terminals == (m + 2)..nodes
            hubLinks == {{1, r} : r \in routers}
            tierLinks == {{r, t} : r \in routers, t \in terminals}
        IN  /\ Links(G) = hubLinks \cup tierLinks
            /\ NumLinks(G) = m + m * (nodes - 1 - m)
            /\ G.nodes = 1..nodes
            /\ err = "none"
            /\ nodes = 10 =>
                  /\ routers = {2, 3, 4, 5, 6}
                  /\ terminals = {7, 8, 9, 10}
                  /\ Cardinality(hubLinks) = 5
                  /\ Cardinality(tierLinks) = 20
                  /\ NumLinks(G) = 25

C6_Witness ==
    /\ pc = "created"
    /\ topology_type = "WRPON"
    /\ nodes = 10
    /\ NumLinks(G) = 25
    /\ {6, 7} \in Links(G)

\* C8: construction with N < 1 fails with an invalid-node-count error and
\* returns no graph.
C8_InvalidNodeCountRejected ==
    (nodes < 1 /\ pc # "start") => (pc = "aborted" /\ err # "none")

----------------------------------------------------------------------------
(* Properties of the direct calls, checked under SpecFn *)

\* C2: simulate_node_failure(G, k) with k in G removes exactly k and the
\* links incident to k and keeps every other link's wavelength; with k not
\* in G (0, an id never created, an id already removed) it changes nothing
\* and raises nothing.
C2_NodeFailureEffect ==
    [][(pc \in {"assigned", "failed"} /\ pc' = "failed") =>
          LET k == failed_node'
          IN  /\ err' = err
              /\ IF k \in G.nodes
                 THEN /\ G'.nodes = G.nodes \ {k}
                      /\ Cardinality(G'.nodes) = Cardinality(G.nodes) - 1
                      /\ Links(G') = {p \in Links(G) : k \notin p}
                      /\ \A p \in Links(G') : G'.edges[p] = G.edges[p]
                 ELSE G' = G]_vars

\* a node with links was removed, and the other links are still there
C2_Witness ==
    /\ pc = "failed"
    /\ topology_type = "Ring"
    /\ nodes = 4
    /\ failed_node = 2
    /\ G.nodes = {1, 3, 4}
    /\ Links(G) = {{3, 4}, {4, 1}}

\* C3: assign_wavelengths with a non-empty label set leaves every link with
\* a wavelength of the set and keeps the node set and the link set.
C3_EveryLinkLabelled ==
    [][(pc = "created" /\ pc' # "created" /\ wavelengths # {}) =>
          /\ pc' = "assigned"
          /\ G'.nodes = G.nodes
          /\ Links(G') = Links(G)
          /\ \A p \in Links(G') :
                G'.edges[p] \in wavelengths /\ G'.edges[p] # None]_vars

C3_Witness ==
    /\ pc = "assigned"
    /\ Cardinality(wavelengths) >= 2
    /\ NumLinks(G) >= 3
    /\ \E p \in Links(G) : \E q \in Links(G) : G.edges[p] # G.edges[q]

\* C9: assign_wavelengths with an empty label set fails for every graph,
\* a graph without links included, writes no wavelength, and the run goes
\* no further.
C9_EmptyLabelSetRejected ==
    (wavelengths = {} /\ pc \notin {"start", "created"}) =>
        /\ pc = "aborted"
        /\ err # "none"
        /\ \A p \in Links(G) : G.edges[p] = None

----------------------------------------------------------------------------
(* Properties of a run of the script, checked under Spec *)

\* C7: a run that builds Ring(N), N in 3..15, labels it from a non-empty
\* set and fails node k, 1 <= k <= N, ends with the nodes 1..N less k and
\* N-2 links: the two links of k are gone, every other ring link is there,
\* joins remaining nodes and carries a label of the set. N = 6, k = 3 ends
\* with nodes {1,2,4,5,6} and 4 links.
C7_RingRunAfterFailure ==
    (/\ pc \in {"failed", "done"}
     /\ topology_type = "Ring"
     /\ nodes \in SliderMinNodes..SliderMaxNodes
     /\ wavelengths # {}
     /\ failed_node \in 1..nodes) =>
        LET ring == {{i, (i % nodes) + 1} : i \in 1..nodes}
        IN  /\ G.nodes = (1..nodes) \ {failed_node}
            /\ Cardinality(G.nodes) = nodes - 1
            /\ NumLinks(G) = nodes - 2
            /\ Links(G) = {p \in ring : failed_node \notin p}
            /\ Cardinality({p \in ring : failed_node \in p}) = 2
            /\ \A p \in Links(G) :
                  p \subseteq G.nodes /\ G.edges[p] \in wavelengths
            /\ (nodes = 6 /\ failed_node = 3) =>
                  /\ G.nodes = {1, 2, 4, 5, 6}
                  /\ NumLinks(G) = 4

C7_Witness ==
    /\ pc = "done"
    /\ topology_type = "Ring"
    /\ nodes = 6
    /\ failed_node = 3
    /\ wavelengths = {"red", "green"}
    /\ G.nodes = {1, 2, 4, 5, 6}
    /\ Links(G) = {{1, 2}, {4, 5}, {5, 6}, {6, 1}}

----------------------------------------------------------------------------
(* Properties of qos_metrics, checked under SpecQos; latency is in half    *)
(* milliseconds                                                            *)

\* C10: for load 0..100, hops 1..10 and either flag, latency is hops/2 with
\* conversion and hops without, throughput is 100 - 2*load floored at 0, so
\* within 0..100 and 0 from load 50 on; the graph is not touched.
C10_QosValues ==
    [][(pc = "failed" /\ pc' = "done") =>
          /\ wavelength_conversion => latency' = hops
          /\ ~wavelength_conversion => latency' = 2 * hops
          /\ traffic_load < 50 => throughput' = 100 - 2 * traffic_load
          /\ traffic_load >= 50 => throughput' = 0
          /\ throughput' \in 0..100
          /\ (traffic_load = 30 /\ hops = 4 /\ wavelength_conversion) =>
                (latency' = 4 /\ throughput' = 40)
          /\ (traffic_load = 100 /\ hops = 4 /\ wavelength_conversion) =>
                (latency' = 4 /\ throughput' = 0)
          /\ (traffic_load = 0 /\ hops = 1 /\ ~wavelength_conversion) =>
                (latency' = 2 /\ throughput' = 100)
          /\ G' = G]_vars

C10_Witness ==
    /\ pc = "done"
    /\ traffic_load = 100
    /\ hops = 4
    /\ wavelength_conversion
    /\ latency = 4
    /\ throughput = 0


====
